---------------------------- MODULE Spec2Model ----------------------------
(***************************************************************************)
(* Model of the sine-wave streaming engine of src/main.go: NewSineWave,    *)
(* SineWave.Read, formatByteLength and the process-wide variables they     *)
(* share (sampleRate, channelCount, currentPhase).                         *)
(*                                                                         *)
(* Units.  Go's time.Duration counts nanoseconds.  The model draws only    *)
(* durations that are whole milliseconds and writes them in milliseconds,  *)
(* so that                                                                 *)
(*    x * int64(duration) / int64(time.Second)  =  x * ms / MsPerSecond    *)
(* holds exactly (both sides truncate the same rational).  float64(        *)
(* duration) is ms * NsPerMs.  Frequencies are multiples of 1/FreqDen Hz   *)
(* and phases are multiples of 1/FreqDen of a turn (2*pi/FreqDen rad);     *)
(* float arithmetic is modelled as exact rational arithmetic.              *)
(*                                                                         *)
(* Bytes are symbolic: <<p, k>> is byte k of the encoded mono sample of    *)
(* sample index p; ZeroByte is a byte of a fresh make([]byte, n) buffer,   *)
(* StaleByte a byte of the caller's buffer that Read did not write.        *)
(***************************************************************************)
EXTENDS Integers, Sequences, FiniteSets, TLC

VARIABLES
    sampleRate,     \* *sampleRate, the -samplerate flag
    channelCount,   \* *channelCount, the -channel-count flag
    currentPhase,   \* process-wide phase carried to the next note
    s,              \* the SineWave most recently built (Nil: none)
    call,           \* the last operation: its name, its format or len(buf)
    ret,            \* what the last operation returned
    out,            \* the bytes the last Read left in the caller's buffer [0:n]
    delivered,      \* sum of the n returned by the Reads on s so far
    eofs,           \* number of Reads on s that returned io.EOF (up to MaxEofs)
    twin,           \* a second SineWave built with the arguments of s after a
                    \* different history, read in step with s into another
                    \* buffer: [s, ret, out]
    probe           \* the last evaluation of a pure function: [fn, in, res]

vars == <<sampleRate, channelCount, currentPhase, s, call, ret, out,
          delivered, eofs, twin, probe>>

---------------------------------------------------------------------------
(* Bounds of the model *)
MaxChannels == 2       \* channel counts up to MaxChannels
MaxDur == 2            \* durations up to MaxDur * DurStep ms
DurStep == 500         \* grain of the durations, in ms
MaxFreq == 2           \* frequencies up to MaxFreq / FreqDen Hz
FreqDen == 3           \* grain of frequencies and phases
MaxBuf == 6            \* len(buf) of a Read call: 0..MaxBuf
MaxRate == 4           \* the positive sample rate
MaxEofs == 2           \* cap of the io.EOF counter

(* Program constants *)
MsPerSecond == 1000    \* int64(time.Second) / int64(time.Millisecond)
NsPerMs == 1000000     \* int64(time.Millisecond)

Formats == {"f32le", "u8", "s16le"}

(* Inputs within the documented ranges: positive frequency, duration,      *)
(* channel count and sample rate; a supported format.                      *)
Freqs == 1..MaxFreq
Durations == {k * DurStep : k \in 1..MaxDur}
Channels == 1..MaxChannels
SampleRates == {MaxRate}

(* Any input the signatures admit: also zero and negative values and an    *)
(* oto.Format outside the three constants.                                 *)
AnyFormat == Formats \cup {"other"}
AnyFreq == {0, MaxFreq}
AnyDuration == {-DurStep, 0, MaxDur * DurStep}
AnyChannels == 0..MaxChannels
AnySampleRate == {0, MaxRate}

ZeroByte == <<-1, 0>>
StaleByte == <<-2, 0>>
OtherStaleByte == <<-3, 0>>   \* prior content of the twin's caller buffer

---------------------------------------------------------------------------
(* Go integer arithmetic: / truncates toward zero *)
Abs(x) == IF x < 0 THEN -x ELSE x
Sign(x) == IF x < 0 THEN -1 ELSE IF x > 0 THEN 1 ELSE 0
GoDiv(a, b) == Sign(a) * Sign(b) * (Abs(a) \div Abs(b))
Min(a, b) == IF a < b THEN a ELSE b

(* faulty variant: the default case returns 0 instead of panicking *)
formatByteLengthNoPanic(format) ==
    CASE format = "f32le" -> 4
      [] format = "u8"    -> 1
      [] format = "s16le" -> 2
      [] OTHER            -> 0

(* formatByteLength: a negative result stands for panic("unexpected format") *)
formatByteLength(format) ==
    CASE format = "f32le" -> 4
      [] format = "u8"    -> 1
      [] format = "s16le" -> 2
      [] OTHER            -> -1

Nil == [freq |-> 0, length |-> 0, pos |-> 0, channelCount |-> 0,
        format |-> "nil", remaining |-> <<>>,
        envelope |-> [Attack |-> <<0, 1>>, Decay |-> <<0, 1>>,
                      Sustain |-> <<0, 1>>, Release |-> <<0, 1>>],
        phase |-> 0]

NoCall == [op |-> "none", format |-> "nil", len |-> 0]
NoRet == [n |-> 0, err |-> "none"]
NoProbe == [fn |-> "none", in |-> <<>>, res |-> <<>>]

(* l := cc * fbl * sampleRate * duration / time.Second; l = l / 4 * 4 *)
NoteLength(cc, fbl, rate, duration) ==
    GoDiv(GoDiv(cc * fbl * rate * duration, MsPerSecond), 4) * 4

(* math.Mod(phase + 2*pi*freq*float64(duration), 2*pi) in units of         *)
(* 1/FreqDen turn.  The code multiplies freq (Hz) by float64(duration),    *)
(* which is nanoseconds: duration * NsPerMs.  The product is reduced       *)
(* modulo FreqDen factor by factor; math.Mod keeps the dividend's sign,    *)
(* which is the sign of freq * duration unless that is zero.               *)
EndPhase(phase, freq, duration) ==
    LET t    == freq * duration
        sgn  == IF t = 0 THEN Sign(phase) ELSE Sign(t)
        mag  == (sgn * phase + (Abs(t) % FreqDen) * (NsPerMs % FreqDen)) % FreqDen
    IN  sgn * mag

(* Envelope literal of NewSineWave; rationals are <<numerator, denominator>> *)
NewEnvelope(duration) ==
    [Attack |-> <<1, 100>>, Decay |-> <<1, 5>>, Sustain |-> <<7, 10>>,
     Release |-> <<duration * (NsPerMs \div 10), 1>>]

InitWith(rates) ==
    /\ sampleRate \in rates
    /\ channelCount \in 1..MaxChannels
    /\ currentPhase = 0
    /\ s = Nil
    /\ call = NoCall
    /\ ret = NoRet
    /\ out = <<>>
    /\ delivered = 0
    /\ eofs = 0
    /\ twin = [s |-> Nil, ret |-> NoRet, out |-> <<>>]
    /\ probe = NoProbe

(* the phase a note starts at when other notes were built before it *)
OtherPhase(phase) == (phase + 1) % FreqDen

(* NewSineWave(freq, duration, cc, format) *)
NewSineWave(freq, duration, cc, format) ==
    LET fbl == formatByteLength(format) IN
    /\ call' = [op |-> "NewSineWave", format |-> format, len |-> 0]
    /\ UNCHANGED probe
    /\ IF fbl < 0
       THEN /\ ret' = [n |-> 0, err |-> "panic"]
            /\ UNCHANGED <<sampleRate, channelCount, currentPhase, s, out,
                           delivered, eofs, twin>>
       ELSE /\ s' = [freq |-> freq,
                     length |-> NoteLength(cc, fbl, sampleRate, duration),
                     pos |-> 0,
                     channelCount |-> cc,
                     format |-> format,
                     remaining |-> <<>>,
                     envelope |-> NewEnvelope(duration),
                     phase |-> currentPhase]
            /\ currentPhase' = EndPhase(currentPhase, freq, duration)
            /\ ret' = [n |-> 0, err |-> "nil"]
            /\ out' = <<>>
            /\ delivered' = 0
            /\ eofs' = 0
            /\ twin' = [s |-> [s' EXCEPT !.phase = OtherPhase(currentPhase)],
                        ret |-> ret', out |-> <<>>]
            /\ UNCHANGED <<sampleRate, channelCount>>

(* The frame loops of Read on a working buffer buf, for num = w *          *)
(* s.channelCount bytes per frame, w bytes per sample, gcc = *channelCount *)
(* channels written per frame and first sample index p.  Frame i writes    *)
(* buf[num*i + w*ch + k] for ch < gcc, k < w (0-based); a later frame      *)
(* overwrites an earlier one.                                              *)
FrameCount(len, num) == GoDiv(len, num)

(* an index written by the loops lies outside buf: runtime panic *)
LoopPanics(len, num, w, gcc) ==
    /\ FrameCount(len, num) > 0
    /\ gcc > 0
    /\ num * (FrameCount(len, num) - 1) + w * gcc > len

WriteFrames(buf, num, w, gcc, p) ==
    LET F == FrameCount(Len(buf), num) IN
    [j \in 1..Len(buf) |->
        LET i   == Min((j - 1) \div num, F - 1)
            off == (j - 1) - num * i
        IN  IF F > 0 /\ off < w * gcc
            THEN <<p + i, off % w>>
            ELSE buf[j]]

Fresh(n, b) == [j \in 1..n |-> b]

(* faulty variant: s.pos > s.length *)
AtEndStrict(pos, length) == pos > length

(* if s.pos == s.length *)
AtEnd(pos, length) == pos = length

(* faulty variant: >= in place of > *)
PastEndInclusive(pos, len, length) == pos + len >= length

(* if s.pos+int64(len(buf)) > s.length *)
PastEnd(pos, len, length) == pos + len > length

(* faulty variant: len(origBuf)+4, the remainder not subtracted *)
PaddedLenPlusFour(blen) == IF blen % 4 > 0 THEN blen + 4 ELSE blen

(* faulty variant: rounds down to the multiple of 4 below *)
PaddedLenDown(blen) == IF blen % 4 > 0 THEN blen - (blen % 4) ELSE blen

(* len(origBuf)+4-len(origBuf)%4 when len(buf)%4 > 0, else len(buf) *)
PaddedLen(blen) == IF blen % 4 > 0 THEN blen + 4 - (blen % 4) ELSE blen

(* faulty variant: s.remaining = buf[n+1:] *)
LeftoverDropsByte(buf, n) == SubSeq(buf, n + 2, Len(buf))

(* faulty variant: s.remaining = buf *)
LeftoverWhole(buf, n) == buf

(* s.remaining = buf[n:] *)
Leftover(buf, n) == SubSeq(buf, n + 1, Len(buf))

(* The generating part of Read on the SineWave w, for a caller buffer of   *)
(* len bytes whose prior content is stale; reached with no leftover and    *)
(* pos # length.  buf[:s.length-s.pos] panics when the bound is negative,  *)
(* s.pos / int64(num) when num is zero.                                    *)
GenerateOn(w, len, stale) ==
    LET eof   == PastEnd(w.pos, len, w.length)
        blen  == IF eof THEN w.length - w.pos ELSE len
        pad   == blen % 4 > 0
        wlen  == PaddedLen(blen)
        fbl   == formatByteLength(w.format)
        num   == fbl * w.channelCount
        p     == GoDiv(w.pos, num)
        work  == IF pad THEN Fresh(wlen, ZeroByte) ELSE Fresh(wlen, stale)
        buf   == WriteFrames(work, num, fbl, channelCount, p)
        n     == IF pad THEN Min(blen, wlen) ELSE wlen
    IN  IF blen < 0 \/ num = 0 \/ LoopPanics(wlen, num, fbl, channelCount)
        THEN [panic |-> TRUE, n |-> 0, eof |-> FALSE, out |-> <<>>,
              pos |-> w.pos, remaining |-> w.remaining]
        ELSE [panic |-> FALSE, n |-> n, eof |-> eof,
              out |-> SubSeq(buf, 1, n),
              pos |-> w.pos + wlen,
              remaining |-> IF pad THEN Leftover(buf, n) ELSE w.remaining]

Generate(len) == GenerateOn(s, len, StaleByte)

(* faulty variant: one leftover byte too few is copied *)
DrainCountShort(len, remaining) == Min(len, Len(remaining) - 1)

(* n := copy(buf, s.remaining) *)
DrainCount(len, remaining) == Min(len, Len(remaining))

(* Read on the SineWave w: the SineWave after the call, what the call      *)
(* returns and the bytes it leaves in buf[0:n].                            *)
ReadOn(w, len, stale) ==
    IF Len(w.remaining) > 0
    THEN LET n == DrainCount(len, w.remaining) IN
         [s   |-> [w EXCEPT !.remaining = Leftover(w.remaining, n)],
          ret |-> [n |-> n, err |-> "nil"],
          out |-> SubSeq(w.remaining, 1, n)]
    ELSE IF AtEnd(w.pos, w.length)
    THEN [s |-> w, ret |-> [n |-> 0, err |-> "EOF"], out |-> <<>>]
    ELSE LET g == GenerateOn(w, len, stale) IN
         IF g.panic
         THEN [s |-> w, ret |-> [n |-> 0, err |-> "panic"], out |-> <<>>]
         ELSE [s   |-> [w EXCEPT !.pos = g.pos, !.remaining = g.remaining],
               ret |-> [n |-> g.n, err |-> IF g.eof THEN "EOF" ELSE "nil"],
               out |-> g.out]

(* (s *SineWave) Read(buf), len = len(buf) *)
Read(len) ==
    LET r == ReadOn(s, len, StaleByte) IN
    /\ s # Nil
    /\ call' = [NoCall EXCEPT !.op = "Read", !.len = len]
    /\ UNCHANGED <<sampleRate, channelCount, currentPhase, probe>>
    /\ s' = r.s
    /\ ret' = r.ret
    /\ out' = r.out
    /\ delivered' = delivered + r.ret.n
    /\ eofs' = IF r.ret.err = "EOF" THEN Min(eofs + 1, MaxEofs) ELSE eofs
    /\ twin' = ReadOn(twin.s, len, OtherStaleByte)

---------------------------------------------------------------------------
(* Spec: callers keep to the documented input ranges.                      *)
Init == InitWith(SampleRates)

Next ==
    \/ \E freq \in Freqs, duration \in Durations, cc \in Channels,
          format \in Formats : NewSineWave(freq, duration, cc, format)
    \/ \E len \in 0..MaxBuf : Read(len)

Spec == Init /\ [][Next]_vars

(* SpecAny: callers pass any value the signatures admit.                   *)
InitAny == InitWith(AnySampleRate)

NextAny ==
    \/ \E freq \in AnyFreq, duration \in AnyDuration, cc \in AnyChannels,
          format \in AnyFormat : NewSineWave(freq, duration, cc, format)
    \/ \E len \in 0..MaxBuf : Read(len)

SpecAny == InitAny /\ [][NextAny]_vars

---------------------------------------------------------------------------
(* SpecFn: the sample packing of the u8 and s16le loops and                *)
(* Envelope.Amplitude, applied to inputs drawn from bounded sets.  probe   *)
(* records the function applied, its input and its result.                 *)

Grid == 22             \* sample values v = k / Grid, k in -Grid..Grid
TimeStep == 10         \* grain, in ms, of the times given to Amplitude

MaxU8 == 127           \* const max of the u8 loop
MaxS16 == 32767        \* const max of the s16le loop

(* faulty variant: the conversion rounds toward minus infinity *)
ToIntFloor(num, den) == num \div den

(* int(x), int16(x) of a float64 x = num / den inside the range of the     *)
(* type: the fraction is discarded (truncation toward zero)                *)
ToInt(num, den) == GoDiv(num, den)

(* byte(b), byte(b >> 8): the low and the second byte of the two's         *)
(* complement of b                                                         *)
LowByte(b) == b % 256
HighByte(b) == (b % 65536) \div 256

(* the bytes a loop stores per channel for math.Sin(..) = k / Grid:        *)
(* u8: b := int(v * 0.3 * 127); byte(b + 128)                              *)
(* s16le: b := int16(v * 0.3 * 32767); byte(b), byte(b >> 8)               *)
PackBytes(format, k) ==
    IF format = "u8"
    THEN <<LowByte(ToInt(k * 3 * MaxU8, 10 * Grid) + 128)>>
    ELSE LET b == ToInt(k * 3 * MaxS16, 10 * Grid) IN
         <<LowByte(b), HighByte(b)>>

Pack(format, k) ==
    /\ probe' = [fn |-> "Pack", in |-> <<format, k>>,
                 res |-> PackBytes(format, k)]
    /\ UNCHANGED <<sampleRate, channelCount, currentPhase, s, call, ret, out,
                   delivered, eofs, twin>>

(* A float64 of seconds as <<whole seconds, thousandths>>, thousandths in  *)
(* 0..999: keeps Release (a tenth of the duration in nanoseconds) and the  *)
(* hundredths of Attack, Decay and Sustain exact within 32 bits.           *)
Fix(q) == <<q[1] \div q[2], ((q[1] % q[2]) * MsPerSecond) \div q[2]>>
FixOfMs(ms) == <<ms \div MsPerSecond, ms % MsPerSecond>>
FixAdd(a, b) ==
    <<a[1] + b[1] + ((a[2] + b[2]) \div MsPerSecond),
      (a[2] + b[2]) % MsPerSecond>>
FixSub(a, b) ==
    <<a[1] - b[1] - (IF a[2] < b[2] THEN 1 ELSE 0),
      (a[2] - b[2] + MsPerSecond) % MsPerSecond>>
FixLess(a, b) == a[1] < b[1] \/ (a[1] = b[1] /\ a[2] < b[2])
FixZero == <<0, 0>>

(* t < total - env.Release, the bound of the sustain branch *)
ReleaseStart(env) ==
    LET total == FixAdd(FixAdd(FixAdd(Fix(env.Attack), Fix(env.Decay)),
                               Fix(env.Sustain)), Fix(env.Release))
    IN  FixSub(total, Fix(env.Release))

(* (env *Envelope) Amplitude(t): the branch taken and the divisors of the  *)
(* divisions it evaluates                                                  *)
EnvelopeAmplitude(env, t) ==
    IF FixLess(t, Fix(env.Attack))
    THEN [formula |-> "attack", divisors |-> <<Fix(env.Attack)>>]
    ELSE IF FixLess(t, FixAdd(Fix(env.Attack), Fix(env.Decay)))
    THEN [formula |-> "decay", divisors |-> <<Fix(env.Decay)>>]
    ELSE IF FixLess(t, ReleaseStart(env))
    THEN [formula |-> "sustain", divisors |-> <<>>]
    ELSE [formula |-> "release", divisors |-> <<Fix(env.Release)>>]

(* the envelopes NewSineWave builds, and envelopes with zero fields *)
NoteEnvelopes == {NewEnvelope(duration) : duration \in Durations}
ShortEnvelopes ==
    [Attack : {<<0, 1>>, <<1, 100>>}, Decay : {<<0, 1>>, <<1, 5>>},
     Sustain : {<<7, 10>>}, Release : {<<0, 1>>, <<1, 20>>}]
Envelopes == NoteEnvelopes \cup ShortEnvelopes

(* the times, in ms, Amplitude is applied to *)
Times == {k * TimeStep : k \in 0..((MaxDur * DurStep) \div TimeStep)}

Amplitude(env, ms) ==
    /\ probe' = [fn |-> "Amplitude", in |-> <<env, ms>>,
                 res |-> EnvelopeAmplitude(env, FixOfMs(ms))]
    /\ UNCHANGED <<sampleRate, channelCount, currentPhase, s, call, ret, out,
                   delivered, eofs, twin>>

InitFn == InitWith(SampleRates)

NextFn ==
    \/ \E format \in {"u8", "s16le"}, k \in (-Grid)..Grid : Pack(format, k)
    \/ \E env \in Envelopes, ms \in Times : Amplitude(env, ms)

SpecFn == InitFn /\ [][NextFn]_vars

---------------------------------------------------------------------------
(* Helpers of the properties *)

(* num := formatByteLength(s.format) * s.channelCount *)
Frame(w) == formatByteLength(w.format) * w.channelCount

(* the duration (ms) a SineWave was built with, from envelope.Release =     *)
(* float64(duration) * 0.1                                                  *)
NoteDuration(w) == w.envelope.Release[1] \div (NsPerMs \div 10)

(* p when s.pos = s.length: the sample index at which the note ends *)
EndIndex(w) == GoDiv(w.length, Frame(w))

(* Argument of math.Sin for sample index p, in units of 1/ArgDen turn.      *)
(* f32le: (2*pi*p/length + s.phase) * 0.6 with freqFundamental = 2 and      *)
(* amplitudeFundamental = 0.6; u8, s16le: 2*pi*p/length; length =           *)
(* sampleRate / s.freq.                                                     *)
ArgDen == 10 * FreqDen * sampleRate
SineArg(w, p) ==
    IF w.format = "f32le"
    THEN 6 * (p * w.freq + w.phase * sampleRate)
    ELSE 10 * p * w.freq

ReadReturned == call.op = "Read" /\ ret.err # "panic"

(* 0-based offset, in the stream delivered so far, of byte out[j] *)
StreamOffset(j) == delivered - ret.n + (j - 1)

(* the byte the frame-by-frame encoding of samples 0, 1, 2, .. has at      *)
(* stream offset o: byte (o mod frame) mod width of sample o div frame     *)
ExpectedByte(w, o) ==
    <<o \div Frame(w), (o % Frame(w)) % formatByteLength(w.format)>>

(* if float64(p) > length-s.envelope.Release, with length = sampleRate /   *)
(* s.freq: the float32 loop scales the fundamental by the linear ramp      *)
(* (length - p) / Release; otherwise by s.envelope.Amplitude(float64(p)).  *)
InReleaseRamp(w, p) ==
    (p + w.envelope.Release[1]) * w.freq > sampleRate * FreqDen

---------------------------------------------------------------------------
(* C1: when Read returns io.EOF, the byte counts returned by the Reads on   *)
(* the stream add up to s.length exactly, with nothing left to deliver.     *)
C1_TotalAtEOF ==
    (call.op = "Read" /\ ret.err = "EOF")
        => (delivered = s.length /\ s.pos = s.length /\ s.remaining = <<>>)

C1_Witness ==
    /\ call.op = "Read" /\ ret.err = "EOF" /\ eofs = 1
    /\ s.length > MaxBuf /\ delivered = s.length

(* C2: once a Read has returned io.EOF, every later Read returns (0,        *)
(* io.EOF) and leaves the SineWave (pos and leftover included) unchanged.   *)
C2_EOFTerminal ==
    [][(eofs > 0 /\ call'.op = "Read")
        => (ret' = [n |-> 0, err |-> "EOF"] /\ s' = s)]_vars

C2_Witness ==
    /\ call.op = "Read" /\ call.len > 0 /\ eofs = 2
    /\ ret = [n |-> 0, err |-> "EOF"] /\ s.length > 0

(* C3 as claimed: a Read returns io.EOF exactly when, after it, the         *)
(* delivered bytes have reached s.length with no leftover, so the call      *)
(* that completes the delivery carries io.EOF itself.                       *)
C3_Original ==
    ReadReturned
        => (ret.err = "EOF" <=> (delivered = s.length /\ s.remaining = <<>>))

(* C3 amended: a Read returns io.EOF exactly when it starts with no         *)
(* leftover and either pos = length or its buffer is strictly larger than   *)
(* the bytes left; io.EOF is returned only with the delivery complete, so   *)
(* every Read returning before that returns a nil error.                    *)
C3_EOFTiming ==
    [][(call'.op = "Read" /\ ret'.err # "panic") =>
        /\ ret'.err = "EOF" <=>
              (s.remaining = <<>> /\
                 (s.pos = s.length \/ s.pos + call'.len > s.length))
        /\ ret'.err = "EOF" => (delivered' = s'.length /\ s'.remaining = <<>>)
        /\ delivered' < s'.length => ret'.err = "nil"]_vars

(* the delivery is completed by a Read that returns a nil error *)
C3_Witness ==
    /\ call.op = "Read" /\ ret.err = "nil" /\ ret.n > 0
    /\ delivered = s.length /\ s.remaining = <<>>

(* C4: pos never decreases from one Read to the next and 0 <= pos <= length *)
C4_PosMonotoneBounded ==
    [][/\ 0 <= s'.pos /\ s'.pos <= s'.length
       /\ call'.op = "Read" => s'.pos >= s.pos]_vars

(* pos has reached length while leftover bytes are still held *)
C4_Witness ==
    /\ call.op = "Read" /\ s.length > 0 /\ s.pos = s.length
    /\ s.remaining # <<>>

(* C5 as claimed: the leftover is strictly smaller than one frame *)
C5_Original == s # Nil => Len(s.remaining) < Frame(s)

(* C5 amended: the leftover is strictly smaller than 4 bytes, the unit the  *)
(* working buffer is rounded up to; it is smaller than a frame when the     *)
(* frame has 4 bytes or more.                                               *)
C5_LeftoverBelowFour ==
    /\ Len(s.remaining) < 4
    /\ Frame(s) >= 4 => Len(s.remaining) < Frame(s)

(* a leftover of three whole one-byte frames *)
C5_Witness == call.op = "Read" /\ Frame(s) = 1 /\ Len(s.remaining) = 3

(* C6 as claimed: a Read that starts with no leftover returns a multiple    *)
(* of the frame size.                                                       *)
C6_Original ==
    [][(call'.op = "Read" /\ ret'.err # "panic" /\ s.remaining = <<>>)
        => ret'.n % Frame(s) = 0]_vars

(* C6 amended: a Read that starts with no leftover returns min(len(buf),    *)
(* length - pos) bytes, generates that count rounded up to a multiple of 4  *)
(* bytes and keeps the surplus, fewer than 4 bytes, as the leftover.        *)
C6_ReturnsRequestPadsToFour ==
    [][(call'.op = "Read" /\ ret'.err # "panic" /\ s.remaining = <<>>) =>
        /\ ret'.n = Min(call'.len, s.length - s.pos)
        /\ (s'.pos - s.pos) % 4 = 0
        /\ s'.pos - s.pos = ret'.n + Len(s'.remaining)
        /\ Len(s'.remaining) < 4]_vars

(* the first Read of a stream returns a partial frame *)
C6_Witness ==
    /\ call.op = "Read" /\ ret.err = "nil" /\ delivered = ret.n
    /\ s.pos = ret.n + Len(s.remaining)
    /\ Frame(s) > 1 /\ ret.n % Frame(s) # 0

(* C7: NewSineWave with a format outside the three supported ones fails     *)
(* (the panic of formatByteLength), builds no SineWave and changes nothing  *)
(* of the existing state, currentPhase included.                            *)
C7_InvalidFormatFails ==
    [][(call'.op = "NewSineWave" /\ call'.format \notin Formats) =>
        /\ ret'.err = "panic"
        /\ UNCHANGED <<sampleRate, channelCount, currentPhase, s, out,
                       delivered, eofs>>]_vars

C7_Witness ==
    /\ call.op = "NewSineWave" /\ call.format \notin Formats
    /\ ret.err = "panic" /\ s # Nil /\ s.pos > 0 /\ currentPhase # 0

(* C8 as claimed: no SineWave exists that was built with a frequency,       *)
(* duration, channel count or sample rate that is zero or negative.         *)
C8_Claim ==
    s # Nil => /\ s.freq > 0
               /\ NoteDuration(s) > 0
               /\ s.channelCount >= 1
               /\ sampleRate > 0

(* C9 as claimed: when note B is built right after note A (so B starts at   *)
(* A's ending phase), in the same format, the sine argument of B at p = 0   *)
(* is congruent modulo one turn to that of A at A's ending index.           *)
C9_Claim ==
    [][(call'.op = "NewSineWave" /\ ret'.err = "nil" /\ s # Nil
          /\ s'.format = s.format /\ s'.phase = currentPhase)
        => (SineArg(s', 0) - SineArg(s, EndIndex(s))) % ArgDen = 0]_vars

(* C10 as claimed: after NewSineWave, currentPhase lies in [0, 2*pi) and    *)
(* equals the previous phase plus 2*pi * freq * duration in seconds,        *)
(* reduced modulo 2*pi.  Both sides in units of 1/(FreqDen*MsPerSecond)     *)
(* turn.                                                                    *)
C10_Claim ==
    [][(call'.op = "NewSineWave" /\ ret'.err = "nil") =>
        /\ 0 <= currentPhase' /\ currentPhase' < FreqDen
        /\ MsPerSecond * currentPhase' =
              (MsPerSecond * currentPhase + s'.freq * NoteDuration(s'))
                  % (FreqDen * MsPerSecond)]_vars

---------------------------------------------------------------------------
(* C11 as claimed: in the bytes Read delivers, every byte belongs to the    *)
(* sample of its own frame index, and the sample of every channel after    *)
(* the first is a byte-for-byte copy of the first channel's.               *)
C11_Claim ==
    ReadReturned =>
        \A j \in 1..Len(out) :
            LET o   == StreamOffset(j)
                fbl == formatByteLength(s.format)
                ch  == (o % Frame(s)) \div fbl
            IN  /\ out[j][1] = o \div Frame(s)
                /\ (ch > 0 /\ j - ch * fbl >= 1) => out[j] = out[j - ch * fbl]

(* the integer the Pack bytes hold: b + 128 in one byte for u8, the two's  *)
(* complement of b, low byte first, for s16le                              *)
Unpacked(format, bytes) ==
    IF format = "u8" THEN bytes[1] - 128
    ELSE LET u == bytes[1] + 256 * bytes[2] IN
         IF u >= 32768 THEN u - 65536 ELSE u

(* v * 0.3 * max as the fraction ScaledNum / ScaledDen *)
ScaledNum(format, k) == k * 3 * (IF format = "u8" THEN MaxU8 ELSE MaxS16)
ScaledDen == 10 * Grid

(* round(num / den), halves away from zero *)
Round(num, den) == Sign(num) * ((2 * Abs(num) + den) \div (2 * den))

(* C12 as claimed: the u8 loop packs round(v*0.3*127) + 128 and the s16le  *)
(* loop packs round(v*0.3*32767), low byte first.                          *)
C12_Original ==
    probe.fn = "Pack" =>
        Unpacked(probe.in[1], probe.res) =
            Round(ScaledNum(probe.in[1], probe.in[2]), ScaledDen)

(* C12 amended: the u8 loop packs b + 128 in one byte and the s16le loop   *)
(* packs b in two bytes, low byte first, where b is v*0.3*max with its     *)
(* fraction discarded: b has the sign of v (or is 0) and                   *)
(* |b| <= |v*0.3*max| < |b| + 1; v = 1 gives 166 and v = -1 gives -9830.   *)
C12_PacksTruncated ==
    probe.fn = "Pack" =>
        LET format == probe.in[1]
            k      == probe.in[2]
            b      == Unpacked(format, probe.res)
            x      == ScaledNum(format, k)
        IN  /\ Len(probe.res) = formatByteLength(format)
            /\ \A i \in 1..Len(probe.res) : probe.res[i] \in 0..255
            /\ b # 0 => Sign(b) = Sign(k)
            /\ Abs(b) * ScaledDen <= Abs(x)
            /\ Abs(x) < (Abs(b) + 1) * ScaledDen
            /\ (format = "u8" /\ k = Grid) => probe.res = <<166>>
            /\ (format = "s16le" /\ k = -Grid) => b = -9830

(* a negative sample value whose scaled value rounds away from the value   *)
(* packed                                                                  *)
C12_Witness ==
    /\ probe.fn = "Pack" /\ probe.in[2] < 0
    /\ Unpacked(probe.in[1], probe.res) #
           Round(ScaledNum(probe.in[1], probe.in[2]), ScaledDen)

(* the value of a delivered byte: byte k of math.Sin at the argument of    *)
(* its sample for a byte a frame loop wrote, the byte itself for one no    *)
(* loop wrote (zero of a fresh buffer, prior content of a caller's)        *)
ByteValue(w, b) ==
    IF b[1] < 0 THEN b ELSE <<SineArg(w, b[1]) % ArgDen, b[2]>>

(* C13 as claimed: for u8 and s16le, the SineWave and its twin (same       *)
(* frequency, duration, channel count, format and sample rate, built       *)
(* after other notes, read with the same buffer sizes) return the same     *)
(* (n, error) and the same bytes on every Read.                            *)
C13_Claim ==
    (call.op = "Read" /\ s.format \in {"u8", "s16le"}) =>
        /\ twin.ret = ret
        /\ Len(twin.out) = Len(out)
        /\ \A j \in 1..Len(out) :
              j <= Len(twin.out) =>
                  ByteValue(twin.s, twin.out[j]) = ByteValue(s, out[j])

(* C14 as claimed: NewSineWave and Read change no process-wide variable,   *)
(* and the phase a note starts at does not depend on the notes built       *)
(* before it (the twin, built with the same arguments after another        *)
(* history, starts at the same phase).                                     *)
C14_Claim ==
    [][/\ UNCHANGED <<sampleRate, channelCount, currentPhase>>
       /\ (call'.op = "NewSineWave" /\ ret'.err = "nil")
              => twin'.s.phase = s'.phase]_vars

(* the branch the claimed partition of [0, d] gives t, for a release of    *)
(* length release ending at d                                              *)
ClaimedFormula(env, d, release, t) ==
    IF FixLess(t, Fix(env.Attack)) THEN "attack"
    ELSE IF FixLess(t, FixAdd(Fix(env.Attack), Fix(env.Decay))) THEN "decay"
    ELSE IF FixLess(t, FixSub(d, release)) THEN "sustain"
    ELSE "release"

(* C15 as claimed: for the envelope NewSineWave builds for a note of       *)
(* duration d and every t in [0, d], Amplitude takes the attack branch on  *)
(* [0, attack), decay on [attack, attack+decay), sustain on                *)
(* [attack+decay, d - release) and release on [d - release, d]; release    *)
(* is read as env.Release or as the tenth of d it is built from.           *)
C15_Claim ==
    (probe.fn = "Amplitude" /\ probe.in[1] \in NoteEnvelopes) =>
        LET env == probe.in[1]
            ms  == probe.in[2]
            d   == NoteDuration([envelope |-> env])
        IN  ms <= d =>
              \/ probe.res.formula =
                    ClaimedFormula(env, FixOfMs(d), Fix(env.Release),
                                   FixOfMs(ms))
              \/ probe.res.formula =
                    ClaimedFormula(env, FixOfMs(d), FixOfMs(d \div 10),
                                   FixOfMs(ms))

(* C16 as claimed: for an envelope whose Attack, Decay or Release is zero  *)
(* and every t in [0, total], no division Amplitude evaluates has the      *)
(* divisor zero.                                                           *)
C16_Claim ==
    probe.fn = "Amplitude" =>
        LET env   == probe.in[1]
            t     == FixOfMs(probe.in[2])
            total == FixAdd(ReleaseStart(env), Fix(env.Release))
        IN  (/\ \/ Fix(env.Attack) = FixZero
                \/ Fix(env.Decay) = FixZero
                \/ Fix(env.Release) = FixZero
             /\ ~FixLess(total, t))
            => \A i \in 1..Len(probe.res.divisors) :
                   probe.res.divisors[i] # FixZero

(* C17 as claimed: a Read returns fewer bytes than requested only when     *)
(* the stream ends; with leftover held and a larger buffer it goes on to   *)
(* generate in the same call.                                              *)
C17_Original ==
    [][(call'.op = "Read" /\ ret'.err # "panic" /\ ret'.n < call'.len)
        => (delivered' = s'.length /\ s'.remaining = <<>>)]_vars

(* C17 amended: a Read made while leftover bytes are held copies           *)
(* min(len(buf), len(leftover)) of them, keeps the rest, generates         *)
(* nothing (pos unchanged) and returns a nil error, also when the buffer   *)
(* is larger than the leftover.                                             *)
C17_DrainOnly ==
    [][(call'.op = "Read" /\ s.remaining # <<>>) =>
        /\ ret' = [n |-> Min(call'.len, Len(s.remaining)), err |-> "nil"]
        /\ out' = SubSeq(s.remaining, 1, ret'.n)
        /\ s' = [s EXCEPT !.remaining =
                     SubSeq(s.remaining, ret'.n + 1, Len(s.remaining))]]_vars

(* a Read returned fewer bytes than asked for before the end of the stream *)
C17_Witness ==
    /\ call.op = "Read" /\ ret.err = "nil"
    /\ 0 < ret.n /\ ret.n < call.len
    /\ s.remaining = <<>> /\ delivered < s.length

(* C18 as claimed: in the float32 path a sample p that Read generated and  *)
(* whose time p / sampleRate lies before duration - release (release =     *)
(* a tenth of the duration) is scaled by Envelope.Amplitude, not by the    *)
(* linear release ramp.  p/sampleRate < 0.9 * ms/1000 is written           *)
(* p * 10 * MsPerSecond < 9 * ms * sampleRate.                             *)
C18_Claim ==
    (ReadReturned /\ s.format = "f32le") =>
        \A j \in 1..Len(out) :
            LET p == out[j][1] IN
            (p >= 0 /\ p * 10 * MsPerSecond < 9 * NoteDuration(s) * sampleRate)
                => ~InReleaseRamp(s, p)

(* C19 as claimed: whatever the buffer sizes, every byte Read delivers is  *)
(* the byte the frame-by-frame encoding of samples 0, 1, 2, .. has at its  *)
(* offset in the stream.                                                   *)
C19_Claim ==
    ReadReturned =>
        \A j \in 1..Len(out) : out[j] = ExpectedByte(s, StreamOffset(j))

(* C20 as claimed: a Read with a buffer of one byte or more returns at     *)
(* least one byte or io.EOF; a Read with an empty buffer before the end    *)
(* returns (0, nil) and leaves the SineWave unchanged.                     *)
C20_Claim ==
    [][call'.op = "Read" =>
        /\ call'.len >= 1 => (ret'.n >= 1 \/ ret'.err = "EOF")
        /\ (call'.len = 0 /\ ~(s.remaining = <<>> /\ s.pos = s.length))
              => (ret' = [n |-> 0, err |-> "nil"] /\ s' = s)]_vars

=============================================================================
